---- MODULE Spec2Model ----
(***************************************************************************)
(* Aqua Voice: the session controller and the transcript reconciler of     *)
(* the live-typing entry point (AquaVoice, aqua_voice.py) and of the       *)
(* queued menu-bar entry point (AquaVoiceApp, aqua_voice_app.py).          *)
(*                                                                         *)
(* Text is a sequence of one-character strings.  Every thread of the       *)
(* program is a process of the model: the threads that call                *)
(* start_recording / stop_recording / cancel_recording, the listener       *)
(* thread of each transcription connection (it runs _on_transcript), the   *)
(* audio-forward thread and the queue-consumer thread of each session.     *)
(* A step of the model is one access to the shared fields of the object.   *)
(***************************************************************************)
EXTENDS Integers, Sequences, FiniteSets, TLC

\* -------------------------------------------------------------- bounds
MaxStarts == 2
MaxFeed == 2
MaxScript == 2
MaxClock == 1750
MaxErrors == 1

\* ------------------------------------------------------------ constants
\* DOUBLE_TAP_THRESHOLD = 0.35 seconds, in milliseconds.
DOUBLE_TAP_THRESHOLD == 350

\* ------------------------------------------------------------ processes
Callers == {"events", "interrupt"}
Sessions == 1..MaxStarts

\* ----------------------------------------------------------------- text
SPACE == " "

IsSpace(ch) == ch = SPACE

RECURSIVE LStrip(_)
LStrip(s) == IF s # <<>> /\ IsSpace(Head(s)) THEN LStrip(Tail(s)) ELSE s

RECURSIVE RStrip(_)
RStrip(s) ==
    IF s # <<>> /\ IsSpace(s[Len(s)]) THEN RStrip(SubSeq(s, 1, Len(s) - 1)) ELSE s

Strip(s) == RStrip(LStrip(s))

RECURSIVE Join(_)
Join(segs) ==
    IF segs = <<>> THEN <<>>
    ELSE IF Len(segs) = 1 THEN segs[1]
    ELSE segs[1] \o <<SPACE>> \o Join(Tail(segs))

JoinedPayload(segs) == Join(segs)

ClipboardPayload(segs) == Strip(Join(segs))

ToTypeBare(text, is_final) == text

ToType(text, is_final) == IF is_final THEN text \o <<SPACE>> ELSE text

DropSuffixKept(typed, n) == typed

DropSuffix(typed, n) == SubSeq(typed, 1, Len(typed) - n)

Truthy(s) == s # <<>>

\* --------------------------------------------------------------- inputs
Ev(text, is_final) == [text |-> text, is_final |-> is_final]

RECURSIVE SeqsUpTo(_, _)
SeqsUpTo(S, n) ==
    IF n = 0 THEN {<<>>}
    ELSE LET shorter == SeqsUpTo(S, n - 1)
         IN  shorter \cup {Append(q, e) : q \in {r \in shorter : Len(r) = n - 1}, e \in S}

\* The texts of the scenarios of the specification's section 8.
How == <<"h", "o", "w">>
HowAre == How \o <<SPACE, "a", "r", "e">>
HowAreYou == HowAre \o <<SPACE, "y", "o", "u">>
Hello == <<"h", "e", "l", "l", "o">>
World == <<"w", "o", "r", "l", "d">>
Testing == <<"t", "e", "s", "t", "i", "n", "g">>

HowScript == <<Ev(How, FALSE), Ev(HowAre, FALSE), Ev(HowAreYou, TRUE)>>
HelloScript == <<Ev(Hello, TRUE), Ev(World, TRUE)>>
TestingScript(v) == <<Ev(Testing, v = "app")>>

SerialTexts == {<<>>, <<"a", "b">>, <<SPACE>>}
SerialEvents(v) ==
    {Ev(t, f) : t \in SerialTexts, f \in IF v = "live" THEN BOOLEAN ELSE {TRUE}}
SerialScripts(v) ==
    SeqsUpTo(SerialEvents(v), MaxScript)
        \cup {HelloScript, TestingScript(v)}
        \cup (IF v = "live" THEN {HowScript} ELSE {})

FreeTexts == {<<"a", "b">>}
FreeEvents(v) ==
    {Ev(t, f) : t \in FreeTexts, f \in IF v = "live" THEN BOOLEAN ELSE {TRUE}}

\* ---------------------------------------------------------------- state
VARIABLES
    owed,                    \* transcripts queued when stop_recording took the lock, not yet appended
    mode,                    \* "free": any interleaving; "serial": one handler at a time, effects logged
    variant,                 \* "live": AquaVoice, "app": AquaVoiceApp
    recording,               \* self.recording
    connection,              \* self.connection: 0 is None, else the session's handle
    stream,                  \* self.stream
    audio,                   \* self.audio
    audio_thread,            \* self.audio_thread
    last_interim,            \* self.last_interim
    all_typed,               \* self.all_typed
    final_text,              \* self.final_text
    transcript_queue,        \* self.transcript_queue
    queue_running,           \* self.queue_running
    queue_processor_thread,  \* self.queue_processor_thread
    conn,                    \* the connection objects: "none", "failed", "open", "finished"
    strm,                    \* the PyAudio streams: "none", "open", "closed"
    pa,                      \* the PyAudio instances: "none", "open", "terminated"
    athr,                    \* the _capture_audio threads: "none", "run", "done"
    qthr,                    \* the _process_transcript_queue threads
    qtext,                   \* the consumer's local `text`
    cb,                      \* the _on_transcript call of each connection's listener thread
    pc,                      \* where each calling thread is
    sid,                     \* the session a calling thread acts on
    nsess,                   \* sessions begun so far
    feed,                    \* transcript events the service has still to deliver
    heard,                   \* events _on_transcript received while recording, since the reset
    log,                     \* keyboard, clipboard and handle operations, in order
    net,                     \* characters typed minus backspaces pressed since the reset
    clipboard,               \* the system clipboard: <<>> until written, then <<text>>
    ended,                   \* how each session ended: "no", "failed", "stopped", "cancelled"
    clock,                   \* time.time() at the last tap handled, in milliseconds
    last_option_tap,         \* self.last_option_tap
    option_tap_count,        \* self.option_tap_count
    taps,                    \* the times at which _handle_option_tap was entered, in order
    tap_call                 \* what the last of those taps called: "start", "stop" or "none"

ctl == <<recording, connection, stream, audio, audio_thread>>
rec == <<last_interim, all_typed, final_text>>
que == <<transcript_queue, queue_running, queue_processor_thread, qthr, qtext>>
ext == <<conn, strm, pa, athr>>
obs == <<log, net, clipboard, ended>>
tap == <<clock, last_option_tap, option_tap_count, taps, tap_call>>
vars == <<mode, variant, tap, owed, ctl, rec, que, ext, cb, pc, sid, nsess, feed, heard, obs>>

IdleCall == [pc |-> "idle", text |-> <<>>, is_final |-> FALSE]

Op(op, text, n) == [op |-> op, text |-> text, n |-> n]

InitWith(m, v, script) ==
    /\ mode = m
    /\ variant = v
    /\ recording = FALSE
    /\ connection = 0
    /\ stream = 0
    /\ audio = 0
    /\ audio_thread = 0
    /\ last_interim = <<>>
    /\ all_typed = <<>>
    /\ final_text = <<>>
    /\ transcript_queue = <<>>
    /\ queue_running = FALSE
    /\ queue_processor_thread = 0
    /\ conn = [i \in Sessions |-> "none"]
    /\ strm = [i \in Sessions |-> "none"]
    /\ pa = [i \in Sessions |-> "none"]
    /\ athr = [i \in Sessions |-> "none"]
    /\ qthr = [i \in Sessions |-> "none"]
    /\ qtext = [i \in Sessions |-> <<>>]
    /\ cb = [i \in Sessions |-> IdleCall]
    /\ pc = [p \in Callers |-> "idle"]
    /\ sid = [p \in Callers |-> 0]
    /\ nsess = 0
    /\ feed = script
    /\ heard = <<>>
    /\ log = <<>>
    /\ net = 0
    /\ clipboard = <<>>
    /\ ended = [i \in Sessions |-> "no"]
    /\ clock = DOUBLE_TAP_THRESHOLD
    /\ last_option_tap = 0
    /\ option_tap_count = 0
    /\ taps = <<>>
    /\ tap_call = "none"
    /\ owed = 0

Init == \E v \in {"live", "app"} : \E script \in SeqsUpTo(FreeEvents(v), MaxFeed) :
            InitWith("free", v, script)

SerialInit == \E v \in {"live", "app"} : \E script \in SerialScripts(v) :
                  InitWith("serial", v, script)

Goto(p, l) == pc' = [pc EXCEPT ![p] = l]

\* Where a call returns to: the event context waits for the next key; the
\* interrupt context leaves run() and the process ends.
Done(p) == IF p = "interrupt" THEN "quit" ELSE "idle"

Return(p) == Goto(p, Done(p)) /\ sid' = [sid EXCEPT ![p] = 0]

Ends(p, how) == ended' = [ended EXCEPT ![sid[p]] = how]

Emit(entries) == log' = IF mode = "serial" THEN log \o entries ELSE log

\* ------------------------------------------------------- start_recording
CallStart(p) ==
    /\ pc[p] = "idle"
    /\ p = "events"
    /\ nsess < MaxStarts
    /\ Goto(p, "s_lock")
    /\ UNCHANGED <<mode, variant, tap, owed, ctl, rec, que, ext, cb, sid, nsess, feed, heard, obs>>

StartLock(p) ==
    /\ pc[p] = "s_lock"
    /\ recording \/ nsess < MaxStarts
    /\ IF recording
       THEN /\ Return(p)
            /\ UNCHANGED <<recording, nsess>>
       ELSE /\ recording' = TRUE
            /\ nsess' = nsess + 1
            /\ sid' = [sid EXCEPT ![p] = nsess + 1]
            /\ Goto(p, "s_reset")
    /\ UNCHANGED <<mode, variant, tap, owed, connection, stream, audio, audio_thread, rec, que, ext,
                   cb, feed, heard, obs>>

StartReset(p) ==
    /\ pc[p] = "s_reset"
    /\ final_text' = <<>>
    /\ last_interim' = IF variant = "live" THEN <<>> ELSE last_interim
    /\ all_typed' = <<>>
    /\ heard' = <<>>
    /\ net' = 0
    /\ Goto(p, IF variant = "app" THEN "s_queue" ELSE "s_conn")
    /\ UNCHANGED <<mode, variant, tap, owed, ctl, que, ext, cb, sid, nsess, feed, log, clipboard, ended>>

StartQueue(p) ==
    /\ pc[p] = "s_queue"
    /\ transcript_queue' = <<>>
    /\ queue_running' = TRUE
    /\ queue_processor_thread' = sid[p]
    /\ qthr' = [qthr EXCEPT ![sid[p]] = "loop"]
    /\ Goto(p, "s_conn")
    /\ UNCHANGED <<mode, variant, tap, owed, ctl, rec, qtext, ext, cb, sid, nsess, feed, heard, obs>>

StartConnectOk(p) ==
    /\ pc[p] = "s_conn"
    /\ connection' = sid[p]
    /\ conn' = [conn EXCEPT ![sid[p]] = "open"]
    /\ Emit(<<Op("conn_open", <<>>, sid[p])>>)
    /\ Goto(p, "s_audio")
    /\ UNCHANGED <<mode, variant, tap, owed, recording, stream, audio, audio_thread, rec, que, strm, pa,
                   athr, cb, sid, nsess, feed, heard, net, clipboard, ended>>

StartConnectFail(p) ==
    /\ pc[p] = "s_conn"
    /\ connection' = sid[p]
    /\ conn' = [conn EXCEPT ![sid[p]] = "failed"]
    /\ recording' = FALSE
    /\ Return(p)
    /\ Ends(p, "failed")
    /\ UNCHANGED <<mode, variant, tap, owed, stream, audio, audio_thread, rec, que, strm, pa, athr, cb,
                   nsess, feed, heard, log, net, clipboard>>

StartAudioOk(p) ==
    /\ pc[p] = "s_audio"
    /\ audio' = sid[p]
    /\ pa' = [pa EXCEPT ![sid[p]] = "open"]
    /\ stream' = sid[p]
    /\ strm' = [strm EXCEPT ![sid[p]] = "open"]
    /\ Emit(<<Op("audio_open", <<>>, sid[p]), Op("stream_open", <<>>, sid[p])>>)
    /\ Goto(p, "s_thread")
    /\ UNCHANGED <<mode, variant, tap, owed, recording, connection, audio_thread, rec, que, conn, athr,
                   cb, sid, nsess, feed, heard, net, clipboard, ended>>

StartAudioFail(p) ==
    /\ pc[p] = "s_audio"
    /\ audio' = sid[p]
    /\ pa' = [pa EXCEPT ![sid[p]] = "open"]
    /\ Emit(<<Op("audio_open", <<>>, sid[p])>>)
    /\ recording' = FALSE
    /\ Return(p)
    /\ Ends(p, "failed")
    /\ UNCHANGED <<mode, variant, tap, owed, connection, stream, audio_thread, rec, que, conn, strm, athr,
                   cb, nsess, feed, heard, net, clipboard>>

StartThread(p) ==
    /\ pc[p] = "s_thread"
    /\ audio_thread' = sid[p]
    /\ athr' = [athr EXCEPT ![sid[p]] = "run"]
    /\ Emit(<<Op("thread_start", <<>>, sid[p])>>)
    /\ Return(p)
    /\ UNCHANGED <<mode, variant, tap, owed, recording, connection, stream, audio, rec, que, conn, strm,
                   pa, cb, nsess, feed, heard, net, clipboard, ended>>

\* ------------------------------------------- teardown (stop and cancel)
\* Each handle is tested, closed and set to None in one step.  finish() ends
\* the delivery of further events; an _on_transcript call already past its
\* recording test runs on, since nothing in the program waits for it.
Alive(t) == t # 0 /\ qthr[t] \notin {"none", "done"}

CloseConnection(p, next) ==
    /\ IF connection # 0
       THEN /\ conn' = [conn EXCEPT ![connection] = IF @ = "open" THEN "finished" ELSE @]
            /\ Emit(<<Op("conn_finish", <<>>, connection)>>)
            /\ connection' = 0
       ELSE UNCHANGED <<conn, log, connection>>
    /\ Goto(p, next)
    /\ UNCHANGED <<mode, variant, tap, owed, recording, stream, audio, audio_thread, rec, que, strm, pa,
                   athr, cb, sid, nsess, feed, heard, net, clipboard, ended>>

CloseStream(p, next) ==
    /\ IF stream # 0
       THEN /\ strm' = [strm EXCEPT ![stream] = "closed"]
            /\ Emit(<<Op("stream_close", <<>>, stream)>>)
            /\ stream' = 0
       ELSE UNCHANGED <<strm, log, stream>>
    /\ Goto(p, next)
    /\ UNCHANGED <<mode, variant, tap, owed, recording, connection, audio, audio_thread, rec, que, conn,
                   pa, athr, cb, sid, nsess, feed, heard, net, clipboard, ended>>

TerminateAudio(p, next) ==
    /\ IF audio # 0
       THEN /\ pa' = [pa EXCEPT ![audio] = "terminated"]
            /\ Emit(<<Op("audio_terminate", <<>>, audio)>>)
            /\ audio' = 0
       ELSE UNCHANGED <<pa, log, audio>>
    /\ Goto(p, next)
    /\ UNCHANGED <<mode, variant, tap, owed, recording, connection, stream, audio_thread, rec, que, conn,
                   strm, athr, cb, sid, nsess, feed, heard, net, clipboard, ended>>

LockedClearUnguarded(p, next) ==
    /\ recording' = FALSE
    /\ sid' = [sid EXCEPT ![p] = nsess]
    /\ Goto(p, next)
    /\ UNCHANGED <<mode, variant, tap, connection, stream, audio, audio_thread, rec, que, ext, cb,
                   nsess, feed, heard, obs>>

LockedClear(p, next) ==
    /\ IF ~recording
       THEN /\ Return(p)
            /\ UNCHANGED recording
       ELSE /\ recording' = FALSE
            /\ sid' = [sid EXCEPT ![p] = nsess]
            /\ Goto(p, next)
    /\ UNCHANGED <<mode, variant, tap, connection, stream, audio, audio_thread, rec, que, ext, cb,
                   nsess, feed, heard, obs>>

Backspaces(p, n) ==
    /\ net' = net - n
    /\ Emit(IF n > 0 THEN <<Op("bs", <<>>, n)>> ELSE <<>>)

\* -------------------------------------------------------- stop_recording
CallStop(p) ==
    /\ pc[p] = "idle"
    /\ p = "events"
    /\ Goto(p, "t_lock")
    /\ UNCHANGED <<mode, variant, tap, owed, ctl, rec, que, ext, cb, sid, nsess, feed, heard, obs>>

Interrupt(p) ==
    /\ pc[p] = "idle"
    /\ p = "interrupt"
    /\ variant = "live"
    /\ Goto(p, IF recording THEN "t_lock" ELSE "quit")
    /\ UNCHANGED <<mode, variant, tap, owed, ctl, rec, que, ext, cb, sid, nsess, feed, heard, obs>>

Backlog == Len(transcript_queue) + Cardinality({s \in Sessions : qthr[s] \in {"got", "typed"}})

StopLock(p) ==
    /\ pc[p] = "t_lock"
    /\ LockedClear(p, "t_conn")
    /\ owed' = IF recording /\ variant = "app" THEN Backlog ELSE owed

StopConnection(p) == pc[p] = "t_conn" /\ CloseConnection(p, "t_strm")

StopStream(p) == pc[p] = "t_strm" /\ CloseStream(p, "t_aud")

StopAudio(p) ==
    pc[p] = "t_aud" /\ TerminateAudio(p, IF variant = "app" THEN "t_flag" ELSE "t_clip")

StopFlag(p) ==
    /\ pc[p] = "t_flag"
    /\ queue_running' = FALSE
    /\ Goto(p, "t_join")
    /\ UNCHANGED <<mode, variant, tap, owed, ctl, rec, transcript_queue, queue_processor_thread, qthr,
                   qtext, ext, cb, sid, nsess, feed, heard, obs>>

\* join(timeout=...) returns when the consumer has ended or when the timeout
\* expires, whichever the timing of the run gives.
StopJoined(p) ==
    /\ pc[p] = "t_join"
    /\ ~Alive(queue_processor_thread)
    /\ Goto(p, "t_clip")
    /\ UNCHANGED <<mode, variant, tap, owed, ctl, rec, que, ext, cb, sid, nsess, feed, heard, obs>>

StopJoinTimeout(p) ==
    /\ pc[p] = "t_join"
    /\ Alive(queue_processor_thread)
    /\ Goto(p, "t_clip")
    /\ UNCHANGED <<mode, variant, tap, owed, ctl, rec, que, ext, cb, sid, nsess, feed, heard, obs>>

StopClipboardWithInterim(p) ==
    /\ pc[p] = "t_clip"
    /\ LET final == ClipboardPayload(Append(final_text, last_interim))
       IN  IF Truthy(final)
           THEN /\ clipboard' = <<final>>
                /\ Emit(<<Op("clip", final, 0)>>)
           ELSE UNCHANGED <<clipboard, log>>
    /\ Return(p)
    /\ Ends(p, "stopped")
    /\ owed' = 0
    /\ UNCHANGED <<mode, variant, tap, ctl, rec, que, ext, cb, nsess, feed, heard, net>>

StopClipboard(p) ==
    /\ pc[p] = "t_clip"
    /\ LET final == ClipboardPayload(final_text)
       IN  IF Truthy(final)
           THEN /\ clipboard' = <<final>>
                /\ Emit(<<Op("clip", final, 0)>>)
           ELSE UNCHANGED <<clipboard, log>>
    /\ Return(p)
    /\ Ends(p, "stopped")
    /\ owed' = 0
    /\ UNCHANGED <<mode, variant, tap, ctl, rec, que, ext, cb, nsess, feed, heard, net>>

\* ------------------------------------------------------ cancel_recording
CallCancel(p) ==
    /\ pc[p] = "idle"
    /\ p = "events"
    /\ Goto(p, "c_lock")
    /\ UNCHANGED <<mode, variant, tap, owed, ctl, rec, que, ext, cb, sid, nsess, feed, heard, obs>>

CancelLock(p) ==
    /\ pc[p] = "c_lock"
    /\ LockedClear(p, IF variant = "app" THEN "c_queue" ELSE "c_conn")
    /\ UNCHANGED owed

CancelQueue(p) ==
    /\ pc[p] = "c_queue"
    /\ queue_running' = FALSE
    /\ transcript_queue' = <<>>
    /\ Goto(p, "c_conn")
    /\ UNCHANGED <<mode, variant, tap, owed, ctl, rec, queue_processor_thread, qthr, qtext, ext, cb, sid,
                   nsess, feed, heard, obs>>

CancelConnection(p) == pc[p] = "c_conn" /\ CloseConnection(p, "c_strm")

CancelStream(p) == pc[p] = "c_strm" /\ CloseStream(p, "c_aud")

CancelAudio(p) ==
    pc[p] = "c_aud" /\ TerminateAudio(p, IF variant = "app" THEN "c_join" ELSE "c_clip")

CancelJoined(p) ==
    /\ pc[p] = "c_join"
    /\ ~Alive(queue_processor_thread)
    /\ Goto(p, "c_del")
    /\ UNCHANGED <<mode, variant, tap, owed, ctl, rec, que, ext, cb, sid, nsess, feed, heard, obs>>

CancelJoinTimeout(p) ==
    /\ pc[p] = "c_join"
    /\ Alive(queue_processor_thread)
    /\ Goto(p, "c_del")
    /\ UNCHANGED <<mode, variant, tap, owed, ctl, rec, que, ext, cb, sid, nsess, feed, heard, obs>>

CancelClipboard(p) ==
    /\ pc[p] = "c_clip"
    /\ IF Truthy(all_typed)
       THEN /\ clipboard' = <<all_typed>>
            /\ Emit(<<Op("clip", all_typed, 0)>>)
            /\ Goto(p, "c_del")
            /\ UNCHANGED <<sid, ended>>
       ELSE /\ UNCHANGED <<clipboard, log>>
            /\ Return(p)
            /\ Ends(p, "cancelled")
    /\ UNCHANGED <<mode, variant, tap, owed, ctl, rec, que, ext, cb, nsess, feed, heard, net>>

CancelDelete(p) ==
    /\ pc[p] = "c_del"
    /\ Backspaces(p, Len(all_typed))
    /\ Return(p)
    /\ Ends(p, "cancelled")
    /\ UNCHANGED <<mode, variant, tap, owed, ctl, rec, que, ext, cb, nsess, feed, heard, clipboard>>

\* ---------------------------------------------------- _handle_option_tap
\* A Right Option release reaches the handler gap milliseconds after the
\* previous one did; the handler reads the time once, on entry.  Its fields are
\* touched by the thread that runs it and by no other, so the writes it makes
\* after the call it places are made in the same step.
Gaps == {DOUBLE_TAP_THRESHOLD - 1, DOUBLE_TAP_THRESHOLD}

WindowFirst(now) ==
    IF now - last_option_tap < DOUBLE_TAP_THRESHOLD /\ option_tap_count + 1 >= 1
    THEN "start"
    ELSE IF recording THEN "stop" ELSE "none"

WithinWindowInclusive(now) == now - last_option_tap <= DOUBLE_TAP_THRESHOLD

WithinWindow(now) == now - last_option_tap < DOUBLE_TAP_THRESHOLD

TapDecision(now) ==
    IF recording THEN "stop"
    ELSE IF WithinWindow(now) /\ option_tap_count + 1 >= 1 THEN "start"
    ELSE "none"

HandleOptionTap(p, gap) ==
    /\ pc[p] = "idle"
    /\ p = "events"
    /\ clock + gap <= MaxClock
    /\ LET now == clock + gap
           call == TapDecision(now)
       IN  /\ call = "start" => nsess < MaxStarts
           /\ clock' = now
           /\ taps' = Append(taps, now)
           /\ tap_call' = call
           /\ Goto(p, CASE call = "stop" -> "t_lock"
                        [] call = "start" -> "s_lock"
                        [] OTHER -> "idle")
           /\ option_tap_count' =
                  IF recording \/ ~WithinWindow(now) \/ option_tap_count + 1 >= 1
                  THEN 0
                  ELSE option_tap_count + 1
           /\ last_option_tap' = now
    /\ UNCHANGED <<mode, variant, owed, ctl, rec, que, ext, cb, sid, nsess, feed, heard, obs>>

\* -------------------------------------------------------- _on_transcript
\* The listener thread of connection i calls the handler with the next event.
\* The service transcribes the audio _capture_audio sends it: a connection has
\* events only once the audio-forward thread of its session has started.
DroppedWhenStopped(ev) == ~recording

Dropped(ev) == ~recording \/ ~Truthy(ev.text)

OnTranscript(i) ==
    /\ conn[i] = "open"
    /\ athr[i] # "none"
    /\ cb[i].pc = "idle"
    /\ feed # <<>>
    /\ LET ev == Head(feed)
       IN  /\ feed' = Tail(feed)
           /\ heard' = IF recording /\ mode = "serial" THEN Append(heard, ev) ELSE heard
           /\ cb' = IF Dropped(ev)
                    THEN cb
                    ELSE [cb EXCEPT ![i] = [pc |-> IF variant = "app" THEN "put" ELSE "retract",
                                            text |-> ev.text, is_final |-> ev.is_final]]
    /\ UNCHANGED <<mode, variant, tap, owed, ctl, rec, que, ext, pc, sid, nsess, obs>>

RetractOnce(interim) == 1

RetractCount(interim) == Len(interim)

RetractInterim(i) ==
    /\ cb[i].pc = "retract"
    /\ IF Truthy(last_interim)
       THEN /\ net' = net - RetractCount(last_interim)
            /\ Emit(<<Op("bs", <<>>, RetractCount(last_interim))>>)
            /\ cb' = [cb EXCEPT ![i].pc = "trim"]
       ELSE /\ UNCHANGED <<net, log>>
            /\ cb' = [cb EXCEPT ![i].pc = "type"]
    /\ UNCHANGED <<mode, variant, tap, owed, ctl, rec, que, ext, pc, sid, nsess, feed, heard, clipboard, ended>>

TrimTyped(i) ==
    /\ cb[i].pc = "trim"
    /\ all_typed' = DropSuffix(all_typed, Len(last_interim))
    /\ cb' = [cb EXCEPT ![i].pc = "type"]
    /\ UNCHANGED <<mode, variant, tap, owed, ctl, last_interim, final_text, que, ext, pc, sid, nsess, feed,
                   heard, obs>>

TypeTranscript(i) ==
    /\ cb[i].pc = "type"
    /\ LET to_type == ToType(cb[i].text, cb[i].is_final)
       IN  /\ net' = net + Len(to_type)
           /\ Emit(<<Op("type", to_type, Len(to_type))>>)
    /\ cb' = [cb EXCEPT ![i].pc = "record"]
    /\ UNCHANGED <<mode, variant, tap, owed, ctl, rec, que, ext, pc, sid, nsess, feed, heard, clipboard, ended>>

NextInterimKept(text, is_final) == text

NextInterim(text, is_final) == IF is_final THEN <<>> ELSE text

RecordTranscript(i) ==
    /\ cb[i].pc = "record"
    /\ all_typed' = all_typed \o ToType(cb[i].text, cb[i].is_final)
    /\ final_text' = IF cb[i].is_final THEN Append(final_text, cb[i].text) ELSE final_text
    /\ last_interim' = NextInterim(cb[i].text, cb[i].is_final)
    /\ cb' = [cb EXCEPT ![i] = IdleCall]
    /\ UNCHANGED <<mode, variant, tap, owed, ctl, que, ext, pc, sid, nsess, feed, heard, obs>>

EnqueueTranscript(i) ==
    /\ cb[i].pc = "put"
    /\ transcript_queue' = Append(transcript_queue, cb[i].text)
    /\ cb' = [cb EXCEPT ![i] = IdleCall]
    /\ UNCHANGED <<mode, variant, tap, owed, ctl, rec, queue_running, queue_processor_thread, qthr, qtext,
                   ext, pc, sid, nsess, feed, heard, obs>>

\* -------------------------------------------------------------- _on_error
\* The listener thread of connection i reports an error of the service: the
\* live variant prints it, the app logs it and sets the status item to "Error".
ErrorsReported == Cardinality({k \in 1..Len(log) : log[k].op = "error"})

OnErrorStops(i) ==
    /\ conn[i] = "open"
    /\ cb[i].pc = "idle"
    /\ ErrorsReported < MaxErrors
    /\ Emit(<<Op("error", <<>>, i)>>)
    /\ recording' = FALSE
    /\ UNCHANGED <<mode, variant, tap, owed, connection, stream, audio, audio_thread, rec, que, ext,
                   cb, pc, sid, nsess, feed, heard, net, clipboard, ended>>

OnError(i) ==
    /\ conn[i] = "open"
    /\ cb[i].pc = "idle"
    /\ ErrorsReported < MaxErrors
    /\ Emit(<<Op("error", <<>>, i)>>)
    /\ UNCHANGED <<mode, variant, tap, owed, ctl, rec, que, ext, cb, pc, sid, nsess, feed, heard,
                   net, clipboard, ended>>

\* --------------------------------------------- _process_transcript_queue
LoopCondition == queue_running \/ transcript_queue # <<>>

ConsumerGet(i) ==
    /\ qthr[i] = "loop"
    /\ transcript_queue # <<>>
    /\ qtext' = [qtext EXCEPT ![i] = Head(transcript_queue)]
    /\ transcript_queue' = Tail(transcript_queue)
    /\ qthr' = [qthr EXCEPT ![i] = "got"]
    /\ UNCHANGED <<mode, variant, tap, owed, ctl, rec, queue_running, queue_processor_thread, ext, cb, pc,
                   sid, nsess, feed, heard, obs>>

ConsumerExit(i) ==
    /\ qthr[i] = "loop"
    /\ ~LoopCondition
    /\ qthr' = [qthr EXCEPT ![i] = "done"]
    /\ UNCHANGED <<mode, variant, tap, owed, ctl, rec, transcript_queue, queue_running,
                   queue_processor_thread, qtext, ext, cb, pc, sid, nsess, feed, heard, obs>>

ConsumerType(i) ==
    /\ qthr[i] = "got"
    /\ LET to_type == ToType(qtext[i], TRUE)
       IN  /\ net' = net + Len(to_type)
           /\ Emit(<<Op("type", to_type, Len(to_type))>>)
    /\ qthr' = [qthr EXCEPT ![i] = "typed"]
    /\ UNCHANGED <<mode, variant, tap, owed, ctl, rec, transcript_queue, queue_running,
                   queue_processor_thread, qtext, ext, cb, pc, sid, nsess, feed, heard,
                   clipboard, ended>>

ConsumerRecord(i) ==
    /\ qthr[i] = "typed"
    /\ all_typed' = all_typed \o ToType(qtext[i], TRUE)
    /\ final_text' = Append(final_text, qtext[i])
    /\ qthr' = [qthr EXCEPT ![i] = "loop"]
    /\ qtext' = [qtext EXCEPT ![i] = <<>>]
    /\ owed' = IF owed > 0 THEN owed - 1 ELSE 0
    /\ UNCHANGED <<mode, variant, tap, ctl, last_interim, transcript_queue, queue_running,
                   queue_processor_thread, ext, cb, pc, sid, nsess, feed, heard, obs>>

\* -------------------------------------------------------- _capture_audio
\* One iteration: the loop test, the read and the send.  The loop ends when the
\* test fails or when the read raises (the stream is gone or closed).
CaptureContinues == recording /\ stream # 0 /\ strm[stream] = "open"

AudioLoop(i) ==
    /\ athr[i] = "run"
    /\ CaptureContinues
    /\ UNCHANGED vars

AudioExit(i) ==
    /\ athr[i] = "run"
    /\ ~CaptureContinues
    /\ athr' = [athr EXCEPT ![i] = "done"]
    /\ UNCHANGED <<mode, variant, tap, owed, ctl, rec, que, conn, strm, pa, cb, pc, sid, nsess, feed,
                   heard, obs>>

\* ------------------------------------------------------------ scheduling
\* Nothing runs once the interrupt context has left run().  In mode "serial" a
\* handler starts only when every other handler has returned and the consumer
\* has emptied the queue.
Running == pc["interrupt"] # "quit"

CallersQuiet(p) == \A q \in Callers \ {p} : pc[q] \in {"idle", "quit"}

CallbacksQuiet(i) == \A j \in Sessions \ {i} : cb[j].pc = "idle"

ConsumersQuiet(i) == \A j \in Sessions \ {i} : qthr[j] \notin {"got", "typed"}

NoBacklog == transcript_queue = <<>> \/ \A j \in Sessions : qthr[j] \in {"none", "done"}

TurnCaller(p) ==
    /\ Running
    /\ mode = "free" \/ (CallersQuiet(p) /\ CallbacksQuiet(0) /\ ConsumersQuiet(0) /\ NoBacklog)

TurnCallback(i) ==
    /\ Running
    /\ mode = "free" \/ (CallersQuiet("") /\ CallbacksQuiet(i) /\ ConsumersQuiet(0) /\ NoBacklog)

TurnConsumer(i) ==
    /\ Running
    /\ mode = "free" \/ (CallbacksQuiet(0) /\ ConsumersQuiet(i))

\* ------------------------------------------------------------ the system
Next ==
    \/ \E p \in Callers : TurnCaller(p) /\ CallStart(p)
    \/ \E p \in Callers : TurnCaller(p) /\ StartLock(p)
    \/ \E p \in Callers : TurnCaller(p) /\ StartReset(p)
    \/ \E p \in Callers : TurnCaller(p) /\ StartQueue(p)
    \/ \E p \in Callers : TurnCaller(p) /\ StartConnectOk(p)
    \/ \E p \in Callers : TurnCaller(p) /\ StartConnectFail(p)
    \/ \E p \in Callers : TurnCaller(p) /\ StartAudioOk(p)
    \/ \E p \in Callers : TurnCaller(p) /\ StartAudioFail(p)
    \/ \E p \in Callers : TurnCaller(p) /\ StartThread(p)
    \/ \E p \in Callers : TurnCaller(p) /\ CallStop(p)
    \/ \E p \in Callers : TurnCaller(p) /\ Interrupt(p)
    \/ \E p \in Callers : TurnCaller(p) /\ StopLock(p)
    \/ \E p \in Callers : TurnCaller(p) /\ StopConnection(p)
    \/ \E p \in Callers : TurnCaller(p) /\ StopStream(p)
    \/ \E p \in Callers : TurnCaller(p) /\ StopAudio(p)
    \/ \E p \in Callers : TurnCaller(p) /\ StopFlag(p)
    \/ \E p \in Callers : TurnCaller(p) /\ StopJoined(p)
    \/ \E p \in Callers : TurnCaller(p) /\ StopJoinTimeout(p)
    \/ \E p \in Callers : TurnCaller(p) /\ StopClipboard(p)
    \/ \E p \in Callers : TurnCaller(p) /\ CallCancel(p)
    \/ \E p \in Callers : TurnCaller(p) /\ CancelLock(p)
    \/ \E p \in Callers : TurnCaller(p) /\ CancelQueue(p)
    \/ \E p \in Callers : TurnCaller(p) /\ CancelConnection(p)
    \/ \E p \in Callers : TurnCaller(p) /\ CancelStream(p)
    \/ \E p \in Callers : TurnCaller(p) /\ CancelAudio(p)
    \/ \E p \in Callers : TurnCaller(p) /\ CancelJoined(p)
    \/ \E p \in Callers : TurnCaller(p) /\ CancelJoinTimeout(p)
    \/ \E p \in Callers : TurnCaller(p) /\ CancelClipboard(p)
    \/ \E p \in Callers : TurnCaller(p) /\ CancelDelete(p)
    \/ \E i \in Sessions : TurnCallback(i) /\ OnTranscript(i)
    \/ \E i \in Sessions : TurnCallback(i) /\ RetractInterim(i)
    \/ \E i \in Sessions : TurnCallback(i) /\ TrimTyped(i)
    \/ \E i \in Sessions : TurnCallback(i) /\ TypeTranscript(i)
    \/ \E i \in Sessions : TurnCallback(i) /\ RecordTranscript(i)
    \/ \E i \in Sessions : TurnCallback(i) /\ EnqueueTranscript(i)
    \/ \E i \in Sessions : TurnConsumer(i) /\ ConsumerGet(i)
    \/ \E i \in Sessions : TurnConsumer(i) /\ ConsumerExit(i)
    \/ \E i \in Sessions : TurnConsumer(i) /\ ConsumerType(i)
    \/ \E i \in Sessions : TurnConsumer(i) /\ ConsumerRecord(i)
    \/ \E i \in Sessions : Running /\ AudioLoop(i)
    \/ \E i \in Sessions : Running /\ AudioExit(i)

Spec == Init /\ [][Next]_vars

SerialSpec == SerialInit /\ [][Next]_vars

\* The trigger key: the same program with the Right Option handler placing the
\* start and stop calls, next to the other sources of calls.
TapScripts(v) == {<<>>, HelloScript} \cup (IF v = "live" THEN {HowScript} ELSE {})

TapInit == \E v \in {"live", "app"} : \E script \in TapScripts(v) :
               InitWith("serial", v, script)

TapNext ==
    \/ Next
    \/ \E p \in Callers : \E gap \in Gaps : TurnCaller(p) /\ HandleOptionTap(p, gap)

TapSpec == TapInit /\ [][TapNext]_vars

\* The same program with the service reporting errors.
ErrorNext ==
    \/ Next
    \/ \E i \in Sessions : TurnCallback(i) /\ OnError(i)

ErrorSpec == TapInit /\ [][ErrorNext]_vars

\* The program under fair scheduling: a call, a callback or a worker thread
\* that can take its next step eventually takes it.  The user's gestures and
\* the service's deliveries are not forced.
CallerStep(p) ==
    \/ StartLock(p) \/ StartReset(p) \/ StartQueue(p) \/ StartConnectOk(p)
    \/ StartConnectFail(p) \/ StartAudioOk(p) \/ StartAudioFail(p) \/ StartThread(p)
    \/ StopLock(p) \/ StopConnection(p) \/ StopStream(p) \/ StopAudio(p) \/ StopFlag(p)
    \/ StopJoined(p) \/ StopJoinTimeout(p) \/ StopClipboard(p)
    \/ CancelLock(p) \/ CancelQueue(p) \/ CancelConnection(p) \/ CancelStream(p)
    \/ CancelAudio(p) \/ CancelJoined(p) \/ CancelJoinTimeout(p) \/ CancelClipboard(p)
    \/ CancelDelete(p)

CallbackStep(i) ==
    \/ RetractInterim(i) \/ TrimTyped(i) \/ TypeTranscript(i) \/ RecordTranscript(i)
    \/ EnqueueTranscript(i)

ConsumerStep(i) == ConsumerGet(i) \/ ConsumerExit(i) \/ ConsumerType(i) \/ ConsumerRecord(i)

Fairness ==
    /\ \A p \in Callers : WF_vars(TurnCaller(p) /\ CallerStep(p))
    /\ \A i \in Sessions : WF_vars(TurnCallback(i) /\ CallbackStep(i))
    /\ \A i \in Sessions : WF_vars(TurnConsumer(i) /\ ConsumerStep(i))
    /\ \A i \in Sessions : WF_vars(Running /\ AudioExit(i))

FairScripts(v) ==
    IF v = "live" THEN {<<Ev(<<"a", "b">>, FALSE), Ev(<<"a", "b">>, TRUE)>>}
    ELSE {<<Ev(<<"a", "b">>, TRUE)>>}

FairInit == \E v \in {"live", "app"} : \E script \in FairScripts(v) :
                InitWith("free", v, script)

FairSpec == FairInit /\ [][Next]_vars /\ Fairness

\* ================================================================ claims
\* What the reconciler contract prescribes for a sequence of events.
RECURSIVE FinalsTyped(_)
FinalsTyped(evs) ==
    IF evs = <<>> THEN <<>>
    ELSE (IF Head(evs).is_final THEN Head(evs).text \o <<SPACE>> ELSE <<>>)
             \o FinalsTyped(Tail(evs))

RECURSIVE Finals(_)
Finals(evs) ==
    IF evs = <<>> THEN <<>>
    ELSE (IF Head(evs).is_final THEN <<Head(evs).text>> ELSE <<>>) \o Finals(Tail(evs))

Pending(evs) ==
    IF evs # <<>> /\ ~evs[Len(evs)].is_final THEN evs[Len(evs)].text ELSE <<>>

Prescribed(evs) == FinalsTyped(evs) \o Pending(evs)

RECURSIVE NonEmptyEvents(_)
NonEmptyEvents(evs) ==
    IF evs = <<>> THEN <<>>
    ELSE (IF Head(evs).text # <<>> THEN <<Head(evs)>> ELSE <<>>) \o NonEmptyEvents(Tail(evs))

AllNonEmpty(evs) == NonEmptyEvents(evs) = evs

AllFinal(evs) == \A k \in 1..Len(evs) : evs[k].is_final

\* The keyboard edits prescribed for a sequence of non-empty events, given the
\* interim that is pending when it starts.
RECURSIVE Edits(_, _)
Edits(evs, pending) ==
    IF evs = <<>> THEN <<>>
    ELSE LET e == Head(evs)
             t == IF e.is_final THEN e.text \o <<SPACE>> ELSE e.text
         IN  (IF pending # <<>> THEN <<Op("bs", <<>>, Len(pending))>> ELSE <<>>)
                 \o <<Op("type", t, Len(t))>>
                 \o Edits(Tail(evs), IF e.is_final THEN <<>> ELSE e.text)

RECURSIVE Keys(_)
Keys(l) ==
    IF l = <<>> THEN <<>>
    ELSE (IF Head(l).op \in {"type", "bs"} THEN <<Head(l)>> ELSE <<>>) \o Keys(Tail(l))

\* Between two events of a session: recording, every handler returned, the
\* queue drained.  The log of the first session holds that session's keys only.
Settled ==
    /\ mode = "serial"
    /\ recording
    /\ CallersQuiet("")
    /\ CallbacksQuiet(0)
    /\ ConsumersQuiet(0)
    /\ transcript_queue = <<>>

\* C1: in the live variant, after any sequence of non-empty events applied one
\* at a time to a freshly reset session, all_typed is every final's text plus a
\* space, in order, followed by the text of the last event if it is an interim,
\* and final_text is the finals in arrival order.  Both are functions of the
\* sequence alone, so a replay of the sequence gives the same result.
C1_Reconciled ==
    (Settled /\ variant = "live" /\ AllNonEmpty(heard)) =>
        /\ all_typed = Prescribed(heard)
        /\ final_text = Finals(heard)

C1_Witness ==
    /\ Settled
    /\ variant = "live"
    /\ heard = <<Ev(<<"a", "b">>, TRUE), Ev(<<"a", "b">>, FALSE)>>
    /\ all_typed = <<"a", "b", SPACE, "a", "b">>

\* C2: in the live variant the keyboard receives, for each non-empty event, the
\* backspaces that retract the pending interim (as many as it has characters)
\* and then the event's text, with a trailing space only for a final; the
\* scenario "how", "how are", final "how are you" gives insert "how", delete 3,
\* insert "how are", delete 7, insert "how are you " and all_typed "how are you ".
C2_Edits ==
    /\ (Settled /\ nsess = 1 /\ variant = "live" /\ AllNonEmpty(heard)) =>
           Keys(log) = Edits(heard, <<>>)
    /\ (Settled /\ variant = "live" /\ heard = HowScript) =>
           /\ Keys(log) = <<Op("type", How, 3), Op("bs", <<>>, 3), Op("type", HowAre, 7),
                            Op("bs", <<>>, 7), Op("type", HowAreYou \o <<SPACE>>, 12)>>
           /\ all_typed = HowAreYou \o <<SPACE>>

C2_Witness ==
    /\ Settled
    /\ variant = "live"
    /\ heard = HowScript
    /\ Len(Keys(log)) = 5

\* C3: an event with empty text, final or interim, pending interim or not, issues
\* no keyboard operation and changes nothing: the state and the keyboard log are
\* those of the same events with the empty ones left out.
C3_EmptyIgnored ==
    Settled =>
        /\ all_typed = Prescribed(NonEmptyEvents(heard))
        /\ final_text = Finals(NonEmptyEvents(heard))
        /\ last_interim = Pending(NonEmptyEvents(heard))
        /\ nsess = 1 => Keys(log) = Edits(NonEmptyEvents(heard), <<>>)

C3_Witness ==
    /\ Settled
    /\ heard = <<Ev(<<"a", "b">>, FALSE), Ev(<<>>, TRUE)>>
    /\ last_interim = <<"a", "b">>
    /\ feed = <<>>

\* A session of finals only, each non-empty, every one typed and recorded, and
\* stop_recording about to write the clipboard.
FinalsOnlyStop(p) ==
    /\ mode = "serial"
    /\ pc[p] = "t_clip"
    /\ pc'[p] # "t_clip"
    /\ heard # <<>>
    /\ AllFinal(heard)
    /\ AllNonEmpty(heard)

\* C4 as stated: stop_recording writes the finals joined by single spaces to
\* the clipboard, and all_typed is each final followed by one space, in order,
\* in both variants.
C4_Original ==
    [][\A p \in Callers : FinalsOnlyStop(p) =>
           /\ clipboard' = <<Join(Finals(heard))>>
           /\ all_typed = FinalsTyped(heard)]_vars

\* C4: stop_recording joins the finals by single spaces and strips the
\* whitespace at both ends; it writes the result to the clipboard unless the
\* result is empty, and then it leaves the clipboard alone.  all_typed is each
\* final followed by one space, in order, in both variants.
C4_StrippedJoin ==
    [][\A p \in Callers : FinalsOnlyStop(p) =>
           /\ clipboard' = IF Strip(Join(Finals(heard))) # <<>>
                           THEN <<Strip(Join(Finals(heard)))>>
                           ELSE clipboard
           /\ final_text = Finals(heard)
           /\ all_typed = FinalsTyped(heard)]_vars

C4_Witness ==
    /\ mode = "serial"
    /\ ended[1] = "stopped"
    /\ heard = HelloScript
    /\ clipboard = <<Hello \o <<SPACE>> \o World>>
    /\ all_typed = Hello \o <<SPACE>> \o World \o <<SPACE>>

\* C5 as stated: cancel_recording, called while recording with text typed,
\* has copied all of all_typed to the clipboard when it presses the first
\* backspace, and presses exactly len(all_typed) backspaces, in both variants.
C5_CopyBeforeDelete ==
    [][\A p \in Callers :
           (mode = "serial" /\ pc[p] = "c_del" /\ pc'[p] # "c_del" /\ Truthy(all_typed)) =>
               /\ clipboard = <<all_typed>>
               /\ net' = net - Len(all_typed)]_vars

\* C6 as stated: once cancel_recording has returned and every callback and
\* consumer step of the session has finished, the session has pressed as many
\* backspaces as it has typed characters, whatever the interleaving.
Finished ==
    /\ \A p \in Callers : pc[p] \in {"idle", "quit"}
    /\ \A s \in Sessions : cb[s].pc = "idle" /\ qthr[s] \in {"none", "done"}
    /\ \A s \in Sessions : conn[s] = "open" => athr[s] = "none"

C6_NothingRemains == (nsess > 0 /\ ended[nsess] = "cancelled" /\ Finished) => net = 0

\* C7: a cancel_recording call made when recording is already false, as the
\* second of two calls in a row is, returns at once: no key, no clipboard
\* write, no handle closed, no field changed.
C7_SecondCancelNoOp ==
    [][\A p \in Callers :
           (pc[p] = "c_lock" /\ ~recording /\ pc'[p] # "c_lock") =>
               /\ pc'[p] = Done(p)
               /\ UNCHANGED <<ctl, rec, que, ext, cb, log, net, clipboard, ended>>]_vars

C7_Witness ==
    /\ mode = "serial"
    /\ \E p \in Callers : pc[p] = "c_lock"
    /\ ~recording
    /\ nsess = 1
    /\ ended[1] = "cancelled"
    /\ \E k \in 1..Len(log) : log[k].op = "bs"

\* C8 as stated: as long as no stop or cancel has been called, the start calls
\* made so far have left at most one connection open, one stream open and one
\* audio-forward thread running.
TeardownLabels ==
    {"t_conn", "t_strm", "t_aud", "t_flag", "t_join", "t_clip",
     "c_queue", "c_conn", "c_strm", "c_aud", "c_join", "c_clip", "c_del"}

Stopping == \E q \in Callers : pc[q] \in TeardownLabels

NeverStopped == ~Stopping /\ \A s \in Sessions : ended[s] \in {"no", "failed"}

C8_OneSession ==
    NeverStopped =>
        /\ Cardinality({s \in Sessions : conn[s] = "open"}) <= 1
        /\ Cardinality({s \in Sessions : strm[s] = "open"}) <= 1
        /\ Cardinality({s \in Sessions : athr[s] = "run"}) <= 1

\* C9 as stated: a start request made while recording or while a stop or
\* cancel teardown is in progress is a no-op, and a stop or cancel request
\* made while idle is a no-op.
NoOp(p) ==
    /\ pc'[p] = Done(p)
    /\ UNCHANGED <<ctl, rec, que, ext, cb, log, net, clipboard, ended, nsess>>

C9_LegalTransitions ==
    [][\A p \in Callers :
           /\ (pc[p] = "s_lock" /\ pc'[p] # "s_lock" /\ (recording \/ Stopping)) => NoOp(p)
           /\ (pc[p] \in {"t_lock", "c_lock"} /\ pc'[p] # pc[p] /\ ~recording) => NoOp(p)]_vars

\* C10 as stated: a start_recording that failed to open the connection or the
\* audio device has left recording false and nothing behind: no started
\* connection unclosed, no PyAudio instance or stream open, no audio-forward
\* or queue-consumer thread running.
C10_NoPartialStart ==
    \A s \in Sessions :
        (ended[s] = "failed" /\ (\A p \in Callers : sid[p] = 0) /\ nsess = s) =>
            /\ ~recording
            /\ conn[s] # "open"
            /\ pa[s] # "open"
            /\ strm[s] # "open"
            /\ athr[s] # "run"
            /\ qthr[s] \in {"none", "done"}

\* C11 as stated: once stop_recording has written the clipboard and returned,
\* no key is typed and no backspace pressed for that session, whatever the
\* interleaving with the callbacks and the consumer.
C11_SilentAfterStop ==
    [][(nsess > 0 /\ ended[nsess] = "stopped") => net' = net]_vars

\* A step in which _handle_option_tap is entered.
Tapped == taps' # taps

\* C12: a tap handled while recording is true calls stop_recording and does
\* not call start_recording, however short the time since the previous tap.
C12_TapStopsWhenRecording ==
    [][(Tapped /\ recording) => pc'["events"] = "t_lock"]_vars

C12_Witness ==
    /\ pc["events"] = "t_lock"
    /\ recording
    /\ Len(taps) = 3
    /\ clock = taps[3]
    /\ taps[3] - taps[2] < DOUBLE_TAP_THRESHOLD

\* C13: a tap handled while recording is false calls start_recording only if
\* the previous tap was handled less than DOUBLE_TAP_THRESHOLD earlier; the
\* first tap of the process, and a tap that follows the previous one by the
\* threshold or more, start nothing.
C13_StartNeedsDoubleTap ==
    [][(Tapped /\ ~recording /\ pc'["events"] # "idle") =>
           /\ pc'["events"] = "s_lock"
           /\ taps # <<>>
           /\ clock' - taps[Len(taps)] < DOUBLE_TAP_THRESHOLD]_vars

C13_Witness ==
    /\ Len(taps) = 3
    /\ taps[2] - taps[1] = DOUBLE_TAP_THRESHOLD
    /\ taps[3] - taps[2] = DOUBLE_TAP_THRESHOLD - 1
    /\ nsess = 0
    /\ pc["events"] = "s_lock"

\* A step in which _on_error runs.
Errored == log' # log /\ log'[Len(log')].op = "error"

\* C14: an error reported by the service while recording leaves recording
\* true and the connection, stream and audio handles, the threads, the queue
\* and all_typed, final_text and last_interim as they were.
C14_ErrorKeepsSession ==
    [][(Errored /\ recording) =>
           /\ recording'
           /\ UNCHANGED <<ctl, rec, que, ext, cb, pc, net, clipboard, ended>>]_vars

C14_Witness ==
    /\ recording
    /\ log # <<>>
    /\ log[Len(log)].op = "error"
    /\ connection # 0
    /\ athr[connection] = "run"
    /\ all_typed = Hello \o <<SPACE>>

\* The text a sequence of keyboard operations leaves in the document.
RECURSIVE Document(_, _)
Document(ops, doc) ==
    IF ops = <<>> THEN doc
    ELSE Document(Tail(ops),
                  IF Head(ops).op = "type" THEN doc \o Head(ops).text
                  ELSE SubSeq(doc, 1, Len(doc) - Head(ops).n))

HandlersQuiet == CallersQuiet("") /\ CallbacksQuiet(0) /\ ConsumersQuiet(0)

\* C15 as stated: whenever no handler is in progress, all_typed is the text
\* the keyboard operations of the current session have left in the document,
\* also after cancel_recording has pressed its backspaces.
C15_TypedIsDocument ==
    (mode = "serial" /\ nsess = 1 /\ HandlersQuiet) => all_typed = Document(Keys(log), <<>>)

RECURSIVE SpacedConcat(_)
SpacedConcat(segs) ==
    IF segs = <<>> THEN <<>> ELSE Head(segs) \o <<SPACE>> \o SpacedConcat(Tail(segs))

\* C16: while recording, between two events, all_typed is every element of
\* final_text followed by a space, in order, followed by last_interim: the
\* document holds the characters of at most one interim, len(last_interim) of
\* them.
C16_OneInterim == Settled => all_typed = SpacedConcat(final_text) \o last_interim

C16_Witness ==
    /\ Settled
    /\ variant = "live"
    /\ final_text = <<<<SPACE>>>>
    /\ last_interim = <<"a", "b">>
    /\ all_typed = <<SPACE, SPACE, "a", "b">>

\* C17 as stated: between the moment start_recording sets recording and the
\* moment it resets last_interim, all_typed and final_text, no callback and no
\* consumer, of this session or left over from the previous one, changes them;
\* the reset is the first thing that happens to them in the session.
C17_ResetFirst ==
    [][\A p \in Callers :
           (pc[p] = "s_reset" /\ pc'[p] = "s_reset") => UNCHANGED rec]_vars

\* C18 as stated: in the app at most one consumer thread is alive at any
\* time, whatever starts, stops, cancels and failed starts came before, and
\* final_text holds the transcripts in the order _on_transcript queued them.
Consumers == {s \in Sessions : qthr[s] \notin {"none", "done"}}

C18_OneConsumerInOrder ==
    variant = "app" =>
        /\ Cardinality(Consumers) <= 1
        /\ Settled => final_text = Finals(NonEmptyEvents(heard))

\* C19 as stated: when the app's stop_recording computes the clipboard payload,
\* every transcript that was queued (or in the consumer's hands) when the call
\* took the lock has been appended to final_text.
C19_DrainedBeforeCopy ==
    [][\A p \in Callers :
           (variant = "app" /\ pc[p] = "t_clip" /\ pc'[p] # "t_clip") => owed = 0]_vars

\* C20 as stated: self.connection, self.stream and self.audio are written only
\* by a step that holds self.lock, and whenever the session is Idle with no
\* call in progress no connection is open, no stream is open and no audio
\* device is initialised.
HoldsLock(p) == pc[p] \in {"s_lock", "t_lock", "c_lock"} /\ pc'[p] # pc[p]

WrittenUnderLock ==
    <<connection, stream, audio>>' # <<connection, stream, audio>> => \E p \in Callers : HoldsLock(p)

NothingOpenWhenIdle ==
    (~recording /\ \A p \in Callers : pc[p] = "idle") =>
        \A s \in Sessions : conn[s] # "open" /\ strm[s] # "open" /\ pa[s] # "open"

C20_HandlesGuarded == [][WrittenUnderLock /\ NothingOpenWhenIdle']_vars

\* C21: on a sequence of non-empty final events the queued reconciler of the
\* app (_on_transcript put, _process_transcript_queue) and the live reconciler
\* produce the same thing: one insertion text + " " per event in order and no
\* backspace, all_typed their concatenation, final_text the texts in order,
\* last_interim empty.
FinalsOnly == heard # <<>> /\ AllFinal(heard) /\ AllNonEmpty(heard)

RECURSIVE Insertions(_)
Insertions(evs) ==
    IF evs = <<>> THEN <<>>
    ELSE <<Op("type", Head(evs).text \o <<SPACE>>, Len(Head(evs).text) + 1)>>
             \o Insertions(Tail(evs))

C21_BatchIsLiveOnFinals ==
    (Settled /\ FinalsOnly) =>
        /\ all_typed = FinalsTyped(heard)
        /\ final_text = Finals(heard)
        /\ last_interim = <<>>
        /\ nsess = 1 => Keys(log) = Insertions(heard)

C21_Witness ==
    /\ Settled
    /\ variant = "app"
    /\ nsess = 1
    /\ heard = HelloScript
    /\ final_text = <<Hello, World>>
    /\ Len(Keys(log)) = 2

\* C22 as stated: in the live variant every received event, one with empty
\* text included, first retracts a pending interim (len(last_interim)
\* backspaces, the suffix removed from all_typed, last_interim cleared) and
\* only then is its text tested: after an empty event nothing is pending.
RECURSIVE RetractFirstEdits(_, _)
RetractFirstEdits(evs, pending) ==
    IF evs = <<>> THEN <<>>
    ELSE LET e == Head(evs)
             t == ToType(e.text, e.is_final)
         IN  (IF pending # <<>> THEN <<Op("bs", <<>>, Len(pending))>> ELSE <<>>)
                 \o (IF e.text # <<>> THEN <<Op("type", t, Len(t))>> ELSE <<>>)
                 \o RetractFirstEdits(Tail(evs), IF e.is_final THEN <<>> ELSE e.text)

C22_RetractBeforeEmptyTest ==
    (Settled /\ variant = "live") =>
        /\ last_interim = Pending(heard)
        /\ all_typed = FinalsTyped(NonEmptyEvents(heard)) \o Pending(heard)
        /\ nsess = 1 => Keys(log) = RetractFirstEdits(heard, <<>>)

\* C23 as stated: once stop_recording or cancel_recording has taken a
\* recording session down, the call returns and that session's _capture_audio
\* loop and (in the app) its _process_transcript_queue loop exit, under fair
\* scheduling, whether or not another session is started afterwards.  The end
\* of the process ends its daemon threads.
TornDown(s) == \E p \in Callers : pc[p] \in TeardownLabels /\ sid[p] = s

WorkersGone(s) ==
    \/ ~Running
    \/ /\ ended[s] \in {"stopped", "cancelled"}
       /\ athr[s] \in {"none", "done"}
       /\ qthr[s] \in {"none", "done"}

C23_TeardownTerminates == \A s \in Sessions : TornDown(s) ~> WorkersGone(s)

\* The live variant's stop_recording about to write the clipboard while an
\* interim is pending.
InterimStop(p) ==
    /\ mode = "serial"
    /\ variant = "live"
    /\ pc[p] = "t_clip"
    /\ pc'[p] # "t_clip"
    /\ Truthy(last_interim)

InterimLeft ==
    /\ all_typed = SpacedConcat(final_text) \o last_interim
    /\ net = Len(all_typed)
    /\ net' = net
    /\ UNCHANGED rec

\* C24 as stated: stop_recording with an interim pending leaves the interim
\* typed (no retraction, all_typed still ends with it) and writes the join of
\* final_text to the clipboard, or nothing when final_text is empty.
C24_Original ==
    [][\A p \in Callers : InterimStop(p) =>
           /\ InterimLeft
           /\ clipboard' = IF final_text # <<>> THEN <<Join(final_text)>> ELSE clipboard]_vars

\* C24: stop_recording with an interim pending leaves the interim typed (no
\* retraction, all_typed still ends with it); the clipboard receives the
\* finals joined by single spaces and stripped at both ends, without the
\* interim, and is not written when that text is empty, as it is when
\* final_text is empty.
C24_InterimNotCopied ==
    [][\A p \in Callers : InterimStop(p) =>
           /\ InterimLeft
           /\ clipboard' = IF Strip(Join(final_text)) # <<>>
                           THEN <<Strip(Join(final_text))>>
                           ELSE clipboard
           /\ final_text = <<>> => clipboard' = clipboard]_vars

C24_Witness ==
    /\ mode = "serial"
    /\ variant = "live"
    /\ nsess = 1
    /\ ended[1] = "stopped"
    /\ final_text = <<<<"a", "b">>>>
    /\ last_interim = <<"a", "b">>
    /\ all_typed = <<"a", "b", SPACE, "a", "b">>
    /\ net = 5
    /\ clipboard = <<<<"a", "b">>>>

\* C25 as stated: after the tap that stopped a recording, one more tap less
\* than DOUBLE_TAP_THRESHOLD later does not call start_recording, so a double
\* tap made while recording leaves the session Idle.
AfterStopTap == taps # <<>> /\ tap_call = "stop"

C25_StopTapResets ==
    [][(Tapped /\ AfterStopTap /\ clock' - taps[Len(taps)] < DOUBLE_TAP_THRESHOLD) =>
           pc'["events"] # "s_lock"]_vars

====
